---------------------------- MODULE Spec2Model ----------------------------
(***************************************************************************)
(* Model of cloudfront_signed_cookies/signer.py: the Signer class.         *)
(*                                                                         *)
(* Python values are tagged records.  A str is a sequence of one-character *)
(* strings, a dict is the sequence of its <<key, value>> items in          *)
(* insertion order, a list is the sequence of its elements.                *)
(***************************************************************************)
EXTENDS Integers, Sequences, FiniteSets, TLC

VARIABLES
    self,        \* the Signer object: its attributes once __init__ has run
    pc,          \* position of the running call
    args,        \* arguments of the running call
    now,         \* what datetime.now() returned to the running call
    policy,      \* local `policy` of generate_cookies (a str)
    signed,      \* the `policy` argument _sign received
    signature,   \* local `signature` of generate_cookies (bytes)
    cookies,     \* value returned by generate_cookies
    raised,      \* exception that ended the call
    trace        \* the methods of Signer the running call has invoked, in order

vars == <<self, pc, args, now, policy, signed, signature, cookies, raised, trace>>

-----------------------------------------------------------------------------
(* Python values *)

PInt(n)  == [t |-> "int", i |-> n]
PStr(s)  == [t |-> "str", s |-> s]
PBool(b) == [t |-> "bool", b |-> b]
PNone    == [t |-> "NoneType"]
PList(l) == [t |-> "list", l |-> l]
PDict(d) == [t |-> "dict", d |-> d]

\* type(v)
TypeOf(v) == v.t

\* bool(v): the truth value `if v:` tests
Truthy(v) ==
    CASE v.t = "int"      -> v.i # 0
      [] v.t = "str"      -> v.s # <<>>
      [] v.t = "bool"     -> v.b
      [] v.t = "NoneType" -> FALSE
      [] v.t = "list"     -> v.l # <<>>
      [] v.t = "dict"     -> v.d # <<>>

\* exceptions and results of an expression that may raise
NoExc == [exc |-> "none", msg |-> "", detail |-> <<>>]
Exc(e, m, d) == [exc |-> e, msg |-> m, detail |-> d]

HasKey(d, k) == \E j \in 1..Len(d) : d[j][1] = k
Lookup(d, k) == d[CHOOSE j \in 1..Len(d) : d[j][1] = k][2]

\* v[k] for a str key k: the value, or the exception the subscript raises
GetItem(v, k) ==
    IF v.t = "dict"
    THEN IF HasKey(v.d, k) THEN [exc |-> "none", val |-> Lookup(v.d, k)]
                           ELSE [exc |-> "KeyError", val |-> PNone]
    ELSE [exc |-> "TypeError", val |-> PNone]

\* the items `for key in v` visits, as str values; <<>> with Iterable false raises
Iterable(v) == v.t \in {"dict", "list", "str"}
IterItems(v) ==
    CASE v.t = "dict" -> [j \in 1..Len(v.d) |-> PStr(v.d[j][1])]
      [] v.t = "list" -> v.l
      [] v.t = "str"  -> [j \in 1..Len(v.s) |-> PStr(<<v.s[j]>>)]
      [] OTHER        -> <<>>

-----------------------------------------------------------------------------
(* keys of the policy schema *)

K_Statement       == <<"S","t","a","t","e","m","e","n","t">>
K_Resource        == <<"R","e","s","o","u","r","c","e">>
K_Condition       == <<"C","o","n","d","i","t","i","o","n">>
K_DateLessThan    == <<"D","a","t","e","L","e","s","s","T","h","a","n">>
K_DateGreaterThan == <<"D","a","t","e","G","r","e","a","t","e","r","T","h","a","n">>
K_IpAddress       == <<"I","p","A","d","d","r","e","s","s">>
K_EpochTime       == <<"A","W","S",":","E","p","o","c","h","T","i","m","e">>
K_SourceIp        == <<"A","W","S",":","S","o","u","r","c","e","I","p">>

allowed_condition_keys == {K_DateLessThan, K_DateGreaterThan, K_IpAddress}

\* allowed_condition_key_subkeys with AWS:EpochTime for every condition key
subkeys_all_epoch(key) == K_EpochTime

allowed_condition_key_subkeys(key) ==
    CASE key = K_DateLessThan    -> K_EpochTime
      [] key = K_DateGreaterThan -> K_EpochTime
      [] key = K_IpAddress       -> K_SourceIp


-----------------------------------------------------------------------------
(* Signer._validate_custom_policy *)

InvalidCustomPolicy(m, d) == Exc("InvalidCustomPolicy", m, d)
TypeError(m, d) == Exc("TypeError", m, d)

\* lines 126-142: the checks on the value under one sub-key
CheckSubKeyValue(sub_key, value) ==
    IF sub_key = K_EpochTime /\ TypeOf(value) # "int"
    THEN InvalidCustomPolicy("AWS:EpochTime value must be of type 'int'", <<TypeOf(value)>>)
    ELSE IF sub_key = K_IpAddress /\ TypeOf(value) # "str"
         THEN InvalidCustomPolicy("value must be of type 'str'", <<TypeOf(value)>>)
         ELSE NoExc

\* lines 118-142: `for sub_key in conditions[key]`, from item j on
RECURSIVE ValidateSubKeys(_, _, _)
ValidateSubKeys(key, body, j) ==
    IF j > Len(body.d) THEN NoExc
    ELSE LET sub_key == body.d[j][1]
             r == CheckSubKeyValue(sub_key, body.d[j][2])
         IN  IF sub_key # allowed_condition_key_subkeys(key)
             THEN InvalidCustomPolicy("invalid condition key sub-key found", sub_key)
             ELSE IF r.exc # "none" THEN r
             ELSE ValidateSubKeys(key, body, j + 1)

\* lines 111-147: the body of `for key in conditions` for one key
ValidateConditionKey(conditions, k) ==
    IF ~(k.t = "str" /\ k.s \in allowed_condition_keys)
    THEN InvalidCustomPolicy("invalid condition key",
                             IF k.t = "str" THEN k.s ELSE <<k.t>>)
    ELSE LET item == GetItem(conditions, k.s)
         IN  IF item.exc # "none" THEN Exc(item.exc, "conditions[key]", <<>>)
             ELSE IF TypeOf(item.val) = "dict"
                  THEN ValidateSubKeys(k.s, item.val, 1)
                  ELSE InvalidCustomPolicy("condition key value must be of type 'dict'",
                                           <<TypeOf(item.val)>>)

\* lines 110-147: `for key in conditions`, from item j on
RECURSIVE ValidateConditions(_, _)
ValidateConditions(conditions, j) ==
    IF ~Iterable(conditions) THEN TypeError("object is not iterable", <<TypeOf(conditions)>>)
    ELSE IF j > Len(IterItems(conditions)) THEN NoExc
    ELSE LET r == ValidateConditionKey(conditions, IterItems(conditions)[j])
         IN  IF r.exc # "none" THEN r ELSE ValidateConditions(conditions, j + 1)

\* lines 149-153
CheckResourceType(resource) ==
    IF TypeOf(resource) # "str"
    THEN TypeError("provided Resource must be of type 'str'", <<TypeOf(resource)>>)
    ELSE NoExc

\* ExaminedStatement taking the last element of a list
ExaminedStatementLast(statements) ==
    CASE TypeOf(statements) = "list" -> [found |-> TRUE, val |-> statements.l[Len(statements.l)]]
      [] TypeOf(statements) = "dict" -> [found |-> TRUE, val |-> statements]
      [] OTHER                       -> [found |-> FALSE, val |-> PNone]

\* lines 94-106: the statement whose Condition and Resource are read, if any
\* (exc "none" with found FALSE: neither branch of the if/elif is taken)
ExaminedStatement(statements) ==
    CASE TypeOf(statements) = "list" -> [found |-> TRUE, val |-> statements.l[1]]
      [] TypeOf(statements) = "dict" -> [found |-> TRUE, val |-> statements]
      [] OTHER                       -> [found |-> FALSE, val |-> PNone]

\* lines 94-106: conditions and resource as the loop and the type check read them
ReadStatement(statements) ==
    LET st == ExaminedStatement(statements)
        c  == GetItem(st.val, K_Condition)
        r  == GetItem(st.val, K_Resource)
    IN  IF ~st.found    \* lines 74-75: conditions = {} and resource = "" stay
        THEN [out |-> NoExc, conditions |-> PDict(<<>>), resource |-> PStr(<<>>)]
        ELSE IF c.exc = "KeyError" \/ (c.exc = "none" /\ r.exc = "KeyError")
        THEN [out |-> InvalidCustomPolicy("policy statement must have Condition block", <<>>),
              conditions |-> PNone, resource |-> PNone]
        ELSE IF c.exc # "none" \/ r.exc # "none"
        THEN [out |-> TypeError("statement is not subscriptable by str", <<TypeOf(st.val)>>),
              conditions |-> PNone, resource |-> PNone]
        ELSE [out |-> NoExc, conditions |-> c.val, resource |-> r.val]

\* lines 51-153: the exception _validate_custom_policy(policy) raises, or NoExc
validate_custom_policy(p) ==
    LET s == GetItem(p, K_Statement)
    IN  IF s.exc = "KeyError" THEN InvalidCustomPolicy("policy is missing Statement", <<>>)
        ELSE IF s.exc # "none" THEN TypeError("policy is not subscriptable by str", <<TypeOf(p)>>)
        ELSE IF ~Truthy(s.val) THEN InvalidCustomPolicy("policy statement is empty", <<>>)
        ELSE LET rd == ReadStatement(s.val)
                 c  == ValidateConditions(rd.conditions, 1)
             IN  IF rd.out.exc # "none" THEN rd.out
                 ELSE IF c.exc # "none" THEN c
                 ELSE CheckResourceType(rd.resource)


-----------------------------------------------------------------------------
(* str and bytes *)

\* the characters with code points 32..126, in order (code point 96, which a
\* TLA+ string cannot hold, is left as the empty string: no character equals it)
Printable == <<
    " ", "!", "\"", "#", "$", "%", "&", "'", "(", ")", "*", "+", ",", "-", ".", "/",
    "0", "1", "2", "3", "4", "5", "6", "7", "8", "9", ":", ";", "<", "=", ">", "?",
    "@", "A", "B", "C", "D", "E", "F", "G", "H", "I", "J", "K", "L", "M", "N", "O",
    "P", "Q", "R", "S", "T", "U", "V", "W", "X", "Y", "Z", "[", "\\", "]", "^", "_",
    "", "a", "b", "c", "d", "e", "f", "g", "h", "i", "j", "k", "l", "m", "n", "o",
    "p", "q", "r", "s", "t", "u", "v", "w", "x", "y", "z", "{", "|", "}", "~" >>

\* ord(c) for the characters the model uses
Ord(c) ==
    IF c = "\n" THEN 10
    ELSE 31 + (CHOOSE j \in 1..Len(Printable) : Printable[j] = c)

\* s.encode(): one byte per character (json.dumps leaves only ASCII in a policy)
encode(s) == [j \in 1..Len(s) |-> Ord(s[j])]

\* "".join(ss), by halves
RECURSIVE Concat(_)
Concat(ss) ==
    IF Len(ss) = 0 THEN <<>>
    ELSE IF Len(ss) = 1 THEN ss[1]
    ELSE LET m == Len(ss) \div 2
         IN  Concat(SubSeq(ss, 1, m)) \o Concat(SubSeq(ss, m + 1, Len(ss)))

\* s.replace(old, new) for one-character old and a new of any length
replace(s, old, new) ==
    Concat([j \in 1..Len(s) |-> IF s[j] = old THEN new ELSE <<s[j]>>])

\* str(n) for an int n
RECURSIVE Digits(_)
Digits(n) ==
    IF n < 10 THEN <<Printable[17 + n]>>
    ELSE Digits(n \div 10) \o <<Printable[17 + (n % 10)]>>
IntStr(n) == IF n < 0 THEN <<"-">> \o Digits(0 - n) ELSE Digits(n)

-----------------------------------------------------------------------------
(* json.dumps and Signer._to_json *)

\* the JSON escape of one character of a str
EscapeChar(c) ==
    CASE c = "\"" -> <<"\\", "\"">>
      [] c = "\\" -> <<"\\", "\\">>
      [] c = "\n" -> <<"\\", "n">>
      [] OTHER    -> <<c>>

JsonStr(s) == <<"\"">> \o Concat([j \in 1..Len(s) |-> EscapeChar(s[j])]) \o <<"\"">>

\* sep.join(parts)
Join(parts, sep) ==
    Concat([j \in 1..Len(parts) |-> IF j = 1 THEN parts[j] ELSE sep \o parts[j]])

\* json.dumps(v, separators=(item_sep, key_sep))
RECURSIVE dumps_sep(_, _, _)
dumps_sep(v, item_sep, key_sep) ==
    CASE v.t = "int"      -> IntStr(v.i)
      [] v.t = "str"      -> JsonStr(v.s)
      [] v.t = "bool"     -> IF v.b THEN <<"t","r","u","e">> ELSE <<"f","a","l","s","e">>
      [] v.t = "NoneType" -> <<"n","u","l","l">>
      [] v.t = "list"     ->
            <<"[">> \o Join([j \in 1..Len(v.l) |-> dumps_sep(v.l[j], item_sep, key_sep)],
                            item_sep) \o <<"]">>
      [] v.t = "dict"     ->
            <<"{">> \o Join([j \in 1..Len(v.d) |->
                                JsonStr(v.d[j][1]) \o key_sep
                                    \o dumps_sep(v.d[j][2], item_sep, key_sep)],
                            item_sep) \o <<"}">>

\* json.dumps(v): the default separators are ", " and ": "
dumps(v) == dumps_sep(v, <<",", " ">>, <<":", " ">>)

\* to_json without the replace
to_json_keep_spaces(s) == dumps(s)

\* line 182: dumps(s).replace(" ", "")
to_json(s) == replace(dumps(s), " ", <<>>)

-----------------------------------------------------------------------------
(* base64.b64encode and Signer._sanitize_b64 *)

B64Alphabet == <<
    "A", "B", "C", "D", "E", "F", "G", "H", "I", "J", "K", "L", "M", "N", "O", "P",
    "Q", "R", "S", "T", "U", "V", "W", "X", "Y", "Z", "a", "b", "c", "d", "e", "f",
    "g", "h", "i", "j", "k", "l", "m", "n", "o", "p", "q", "r", "s", "t", "u", "v",
    "w", "x", "y", "z", "0", "1", "2", "3", "4", "5", "6", "7", "8", "9", "+", "/" >>

B64Char(n) == B64Alphabet[n + 1]

\* the 4 characters for a group of 1, 2 or 3 bytes
B64Group(g) ==
    LET b1 == g[1]
        b2 == IF Len(g) >= 2 THEN g[2] ELSE 0
        b3 == IF Len(g) >= 3 THEN g[3] ELSE 0
    IN  << B64Char(b1 \div 4),
           B64Char((b1 % 4) * 16 + (b2 \div 16)),
           IF Len(g) >= 2 THEN B64Char((b2 % 16) * 4 + (b3 \div 64)) ELSE "=",
           IF Len(g) >= 3 THEN B64Char(b3 % 64) ELSE "=" >>

Min(a, b) == IF a <= b THEN a ELSE b

\* b64encode(bs): 4 characters for every group of 3 bytes, the last group padded
b64encode(bs) ==
    Concat([g \in 1..((Len(bs) + 2) \div 3) |->
                B64Group(SubSeq(bs, 3 * g - 2, Min(3 * g, Len(bs))))])

\* sanitize_b64 with the URL-safe "_" for "/" as well as for "="
sanitize_b64_urlsafe(s) ==
    replace(replace(replace(s, "+", <<"-">>), "=", <<"_">>), "/", <<"_">>)

\* lines 176-178: the three replacements, in the dict's order
sanitize_b64(s) ==
    replace(replace(replace(s, "+", <<"-">>), "=", <<"_">>), "/", <<"~">>)


-----------------------------------------------------------------------------
(* Signer.__init__ *)

Digit     == {"0","1","2","3","4","5","6","7","8","9"}
HexLower  == Digit \cup {"a","b","c","d","e","f"}
Lower     == {Printable[j] : j \in 66..91}
Upper     == {Printable[j] : j \in 34..59}
\* \w: the characters between which \b finds no boundary
WordChar  == Digit \cup Lower \cup Upper \cup {"_"}

\* \b at position i (before the character s[i]): exactly one side is a \w character
WordBoundary(s, i) ==
    (i > 1 /\ i - 1 <= Len(s) /\ s[i - 1] \in WordChar)
        # (i <= Len(s) /\ s[i] \in WordChar)

\* $ at position i: the end of the string, or just before a newline that ends it
AtEnd(s, i) == i = Len(s) + 1 \/ (i = Len(s) /\ s[i] = "\n")

\* [0-9a-f]{n} at position i
HexRun(s, i, n) == i + n - 1 <= Len(s) /\ \A j \in i..(i + n - 1) : s[j] \in HexLower

\* \b- at position i
BoundaryDash(s, i) == WordBoundary(s, i) /\ i <= Len(s) /\ s[i] = "-"

\* line 24: match(r'^[0-9a-f]{8}\b-[0-9a-f]{4}\b-[0-9a-f]{4}\b-[0-9a-f]{4}\b-[0-9a-f]{12}$', s)
match_key_id(s) ==
    /\ HexRun(s, 1, 8)   /\ BoundaryDash(s, 9)
    /\ HexRun(s, 10, 4)  /\ BoundaryDash(s, 14)
    /\ HexRun(s, 15, 4)  /\ BoundaryDash(s, 19)
    /\ HexRun(s, 20, 4)  /\ BoundaryDash(s, 24)
    /\ HexRun(s, 25, 12) /\ AtEnd(s, 37)

\* the Signer before __init__ has set anything
NoSigner == [cloudfront_key_id |-> <<>>, priv_key |-> "unset"]

\* what priv_key_file names: nothing, a PEM RSA key, a PEM key of a kind that
\* cannot sign with PSS, or bytes that are no PEM key
KeyFiles == {"missing", "rsa", "unsuitable", "malformed"}

\* lines 24-36: the exception __init__ raises, or NoExc with the attributes it set
init(cloudfront_key_id, priv_key_file) ==
    IF ~match_key_id(cloudfront_key_id)
    THEN [out |-> Exc("InvalidCloudFrontKeyId",
                      "CloudFront public key ID must be a UUID string", <<>>),
          obj |-> NoSigner]
    ELSE IF priv_key_file = "missing"
    THEN [out |-> Exc("PrivateKeyNotFound", "not found", <<>>),
          obj |-> [NoSigner EXCEPT !.cloudfront_key_id = cloudfront_key_id]]
    ELSE IF priv_key_file = "malformed"
    THEN [out |-> Exc("ValueError", "could not deserialize key data", <<>>),
          obj |-> [NoSigner EXCEPT !.cloudfront_key_id = cloudfront_key_id]]
    ELSE [out |-> NoExc,
          obj |-> [cloudfront_key_id |-> cloudfront_key_id, priv_key |-> priv_key_file]]


-----------------------------------------------------------------------------
(* Signer._make_canned_policy and the expiry generate_cookies gives it *)

\* lines 159-167
make_canned_policy(resource, expiration_date) ==
    to_json(PDict(<< <<K_Statement,
        PList(<< PDict(<< <<K_Resource, resource>>,
                          <<K_Condition,
                            PDict(<< <<K_DateLessThan,
                                       PDict(<< <<K_EpochTime, PInt(expiration_date)>> >>)>> >>)>>
                       >>) >>)>> >>))

\* a datetime: whole seconds since the epoch and microseconds
\* lines 205-207: datetime.now() + timedelta(seconds=SecondsBeforeExpires)
expires_on(t, SecondsBeforeExpires) == [s |-> t.s + SecondsBeforeExpires, us |-> t.us]

\* timestamp_int with round() in place of int()
timestamp_round(t) == IF t.us >= 500000 THEN t.s + 1 ELSE t.s

\* line 209: int(expires_on.timestamp()); int() truncates towards zero
timestamp_int(t) == IF t.s < 0 /\ t.us > 0 THEN t.s + 1 ELSE t.s

\* Mode with the Resource argument consulted first
ModeResourceFirst(Policy, Resource) ==
    IF Truthy(Resource) THEN "canned"
    ELSE IF Truthy(Policy) THEN "custom"
    ELSE "missing_resource"

\* lines 199-204: which branch generate_cookies takes
Mode(Policy, Resource) ==
    IF Truthy(Policy) THEN "custom"
    ELSE IF ~Truthy(Resource) THEN "missing_resource"
    ELSE "canned"

-----------------------------------------------------------------------------
(* bounds and the inputs drawn within them *)

MaxResourceLen == 2     \* longest Resource argument
MaxConditionKeys == 2   \* most keys of a Condition mapping
MaxSubKeys == 2         \* most sub-keys under one condition key
MaxLaterStatements == 2 \* most elements after element 0 of a Statement sequence

SeqsUpTo(S, n) == UNION {[1..k -> S] : k \in 0..n}

\* sequences of at most n of the items, no key twice
KeysDistinct(d) == \A i, j \in 1..Len(d) : i # j => d[i][1] # d[j][1]
DictsUpTo(items, n) == {d \in SeqsUpTo(items, n) : KeysDistinct(d)}

BaseKeyId == <<"5", "5", "0", "e", "8", "4", "0", "0", "-", "e", "2", "9", "b", "-", "4", "1", "d", "4", "-", "a", "7", "1", "6", "-", "4", "4", "6", "6", "5", "5", "4", "4", "0", "0", "0", "0">>

KeyIdChars == {"a", "0", "g", "A", "-", "_", "\n"}

\* key identifiers: a UUID, and what one edit makes of it
KeyIds ==
    {BaseKeyId, <<>>, BaseKeyId \o <<"\n", "\n">>}
        \cup {[BaseKeyId EXCEPT ![i] = c] : i \in 1..Len(BaseKeyId), c \in KeyIdChars}
        \cup {BaseKeyId \o <<c>> : c \in KeyIdChars}
        \cup {<<c>> \o BaseKeyId : c \in KeyIdChars}
        \cup {SubSeq(BaseKeyId, 1, n) : n \in 1..(Len(BaseKeyId) - 1)}

ResourceChars == {"a", " ", "?"}
Resources == {PStr(r) : r \in SeqsUpTo(ResourceChars, MaxResourceLen)}

SecondsChoices == {900, 0 - 1}
Times == {[s |-> 1700000000, us |-> 0], [s |-> 1700000000, us |-> 999999]}

\* signatures differ from call to call (the PSS salt is random): a sample of byte strings
Signatures == {<<0>>, <<251, 255>>, <<255, 239, 190>>}

NoTime == [s |-> 0, us |-> 0]
NoCookies == <<>>


-----------------------------------------------------------------------------
(* custom policies *)

K_Bad     == <<"B","a","d">>
K_Version == <<"V","e","r","s","i","o","n">>
S_Url     == <<"u","?","a"," ","b">>
S_Ip      == <<"1","."," ","2">>
EpochValue == PInt(2000000000)

\* the items a condition body is made of: either sub-key with an int or a str,
\* and the condition key IpAddress used as a sub-key
SubItems ==
    { <<K_EpochTime, EpochValue>>, <<K_EpochTime, PStr(<<"5">>)>>,
      <<K_SourceIp, PStr(S_Ip)>>, <<K_SourceIp, PInt(5)>>,
      <<K_IpAddress, PInt(5)>> }

ConditionBodies == {PDict(d) : d \in DictsUpTo(SubItems, MaxSubKeys)} \cup {PInt(5)}

\* items that pass every check
GoodItems ==
    { <<K_DateLessThan, PDict(<< <<K_EpochTime, EpochValue>> >>)>>,
      <<K_DateGreaterThan, PDict(<< <<K_EpochTime, PInt(5)>> >>)>>,
      <<K_IpAddress, PDict(<< <<K_SourceIp, PStr(S_Ip)>> >>)>> }

AnyItems ==
    {<<k, b>> : k \in allowed_condition_keys \cup {K_Bad}, b \in ConditionBodies}

\* item a put into the mapping g before its item k + 1
InsertAt(g, k, a) == SubSeq(g, 1, k) \o <<a>> \o SubSeq(g, k + 1, Len(g))

\* Condition mappings: items that pass, and one item of any kind among them
Conditions ==
    {PDict(g) : g \in DictsUpTo(GoodItems, MaxConditionKeys)}
    \cup UNION { UNION { {PDict(d) : d \in {e \in {InsertAt(g, k, a) : a \in AnyItems} :
                                                  KeysDistinct(e)}} :
                         k \in 0..Len(g) } :
                 g \in DictsUpTo(GoodItems, MaxConditionKeys - 1) }

\* what else a statement may hold under Condition
OtherConditions ==
    { PStr(<<>>), PStr(<<"a","b">>), PList(<<>>), PList(<<PStr(K_DateLessThan)>>),
      PList(<<PInt(5)>>), PInt(5), PNone,
      PDict(<<>>), PDict(<< <<K_DateLessThan, PDict(<< <<K_EpochTime, EpochValue>> >>)>> >>),
      PDict(<< <<K_Bad, PInt(5)>> >>) }

ResourceValues == {PStr(S_Url), PInt(7)}

GoodStatement ==
    PDict(<< <<K_Resource, PStr(S_Url)>>,
             <<K_Condition, PDict(<< <<K_DateLessThan,
                                       PDict(<< <<K_EpochTime, EpochValue>> >>)>> >>)>> >>)

\* statements: Resource and Condition in either order, either or both missing,
\* and values that are no mapping at all
StatementShapes ==
    {PDict(<< <<K_Resource, r>>, <<K_Condition, c>> >>) : r \in ResourceValues, c \in OtherConditions}
    \cup {PDict(<< <<K_Condition, c>>, <<K_Resource, r>> >>) : r \in ResourceValues, c \in OtherConditions}
    \cup {PDict(<< <<K_Condition, c>> >>) : c \in OtherConditions}
    \cup {PDict(<< <<K_Resource, r>> >>) : r \in ResourceValues}
    \cup {PDict(<< <<K_Version, PInt(1)>> >>), PDict(<<>>)}
    \cup {PStr(<<"x">>), PStr(<<>>), PInt(5), PInt(0), PNone, PBool(TRUE), PList(<<>>)}

LaterStatements == {GoodStatement, PDict(<<>>), PInt(5)}

StatementValues ==
    StatementShapes
    \cup {PList(<<st>> \o later) : st \in StatementShapes,
                                  later \in SeqsUpTo(LaterStatements, MaxLaterStatements)}

\* the policies _validate_custom_policy is given
ValidatorPolicies ==
    {PDict(<< <<K_Statement, sv>> >>) : sv \in StatementValues}
    \cup {PDict(<< <<K_Statement, PDict(<< <<K_Resource, PStr(S_Url)>>, <<K_Condition, c>> >>)>> >>) :
            c \in Conditions}
    \cup {PDict(<< <<K_Statement, PList(<< PDict(<< <<K_Resource, PStr(S_Url)>>, <<K_Condition, c>> >>),
                                           GoodStatement >>)>> >>) :
            c \in Conditions}
    \cup {PDict(<< <<K_Version, PInt(1)>> >>),
          PDict(<< <<K_Version, PInt(1)>>, <<K_Statement, GoodStatement>> >>)}

\* the Policy arguments generate_cookies is given: none, and custom policies
\* that pass, fail and slip through validation
CallPolicies ==
    { PDict(<<>>), PNone,
      PDict(<< <<K_Statement, GoodStatement>> >>),
      PDict(<< <<K_Statement, PList(<<GoodStatement, PInt(5)>>)>> >>),
      PDict(<< <<K_Statement,
                 PDict(<< <<K_Resource, PStr(<<"?", "a", "b", ">">>)>>,
                          <<K_Condition, PDict(<< <<K_IpAddress,
                                PDict(<< <<K_SourceIp, PStr(S_Ip)>> >>)>> >>)>> >>)>> >>),
      PDict(<< <<K_Statement,
                 PDict(<< <<K_Resource, PStr(<<">", "\"", "\\">>)>>,
                          <<K_Condition, PDict(<<>>)>> >>)>> >>),
      PDict(<< <<K_Statement,
                 PDict(<< <<K_Resource, PStr(S_Url)>>,
                          <<K_Condition, PDict(<< <<K_IpAddress,
                                PDict(<< <<K_SourceIp, PInt(5)>> >>)>> >>)>> >>)>> >>),
      PDict(<< <<K_Statement, PStr(<<"x">>)>> >>),
      PDict(<< <<K_Version, PInt(1)>> >>),
      PDict(<< <<K_Statement, PList(<<>>)>> >>),
      PDict(<< <<K_Statement, PDict(<< <<K_Resource, PStr(S_Url)>> >>)>> >>),
      PDict(<< <<K_Statement,
                 PDict(<< <<K_Resource, PInt(7)>>, <<K_Condition, PDict(<<>>)>> >>)>> >>),
      PDict(<< <<K_Statement,
                 PDict(<< <<K_Resource, PStr(S_Url)>>,
                          <<K_Condition, PDict(<< <<K_Bad, PInt(5)>> >>)>> >>)>> >>) }


-----------------------------------------------------------------------------
(* construction: Signer(cloudfront_key_id, priv_key_file) *)

NoArgs == [Resource |-> PNone]

Locals0 ==
    /\ now = NoTime
    /\ policy = <<>>
    /\ signed = <<>>
    /\ signature = <<>>
    /\ cookies = NoCookies
    /\ raised = NoExc
    /\ trace = <<>>

InitNew ==
    /\ self = NoSigner
    /\ pc = "new"
    /\ args = NoArgs
    /\ Locals0

\* lines 17-36
Construct ==
    /\ pc = "new"
    /\ \E id \in KeyIds, file \in KeyFiles :
          LET r == init(id, file)
          IN  /\ args' = [cloudfront_key_id |-> id, priv_key_file |-> file]
              /\ self' = r.obj
              /\ raised' = r.out
              /\ pc' = IF r.out.exc = "none" THEN "constructed" ELSE "init_raised"
    /\ UNCHANGED <<now, policy, signed, signature, cookies, trace>>

NextNew == Construct

SpecInit == InitNew /\ [][NextNew]_vars

-----------------------------------------------------------------------------
(* _validate_custom_policy on its own *)

InitValidator ==
    /\ self \in {init(BaseKeyId, "rsa").obj}
    /\ pc = "validator"
    /\ args \in {[Policy |-> p] : p \in ValidatorPolicies}
    /\ Locals0

\* lines 51-153
RunValidator ==
    /\ pc = "validator"
    /\ raised' = validate_custom_policy(args.Policy)
    /\ trace' = Append(trace, "_validate_custom_policy")
    /\ pc' = "validator_done"
    /\ UNCHANGED <<self, args, now, policy, signed, signature, cookies>>

NextValidator == RunValidator

SpecValidate == InitValidator /\ [][NextValidator]_vars

-----------------------------------------------------------------------------
(* generate_cookies, step by step *)

Init ==
    /\ self \in {init(BaseKeyId, f).obj : f \in {"rsa", "unsuitable"}}
    /\ pc = "idle"
    /\ args = NoArgs
    /\ Locals0

\* lines 184-204: the call, up to the branch it takes
Call ==
    /\ pc = "idle"
    /\ \E R \in Resources, P \in CallPolicies, S \in SecondsChoices :
          /\ args' = [Resource |-> R, Policy |-> P, SecondsBeforeExpires |-> S]
          /\ LET m == Mode(P, R)
             IN  /\ pc' = CASE m = "custom" -> "line200"
                            [] m = "canned" -> "line205"
                            [] OTHER        -> "raised"
                 /\ raised' = IF m = "missing_resource"
                              THEN Exc("ValueError", "must provide a resource URL", <<>>)
                              ELSE NoExc
    /\ now' = NoTime /\ policy' = <<>> /\ signed' = <<>> /\ signature' = <<>>
    /\ cookies' = NoCookies /\ trace' = <<>>
    /\ UNCHANGED self

\* Validate with the exception swallowed: the call goes on to line 201
ValidateAndGoOn ==
    /\ pc = "line200"
    /\ raised' = validate_custom_policy(args.Policy)
    /\ pc' = "line201"
    /\ trace' = Append(trace, "_validate_custom_policy")
    /\ UNCHANGED <<self, args, now, policy, signed, signature, cookies>>

\* line 200
Validate ==
    /\ pc = "line200"
    /\ LET r == validate_custom_policy(args.Policy)
       IN  /\ raised' = r
           /\ pc' = IF r.exc = "none" THEN "line201" ELSE "raised"
    /\ trace' = Append(trace, "_validate_custom_policy")
    /\ UNCHANGED <<self, args, now, policy, signed, signature, cookies>>

\* line 201
CanonicalizeCustom ==
    /\ pc = "line201"
    /\ policy' = to_json(args.Policy)
    /\ trace' = Append(trace, "_to_json")
    /\ pc' = "line211"
    /\ UNCHANGED <<self, args, now, signed, signature, cookies, raised>>

\* lines 205-210
Canned ==
    /\ pc = "line205"
    /\ \E t \in Times :
          /\ now' = t
          /\ policy' = make_canned_policy(args.Resource,
                          timestamp_int(expires_on(t, args.SecondsBeforeExpires)))
    /\ trace' = trace \o <<"_make_canned_policy", "_to_json">>
    /\ pc' = "line211"
    /\ UNCHANGED <<self, args, signed, signature, cookies, raised>>

\* line 211 and lines 38-49: the key signs, or the signing primitive raises
Sign ==
    /\ pc = "line211"
    /\ signed' = policy
    /\ trace' = Append(trace, "_sign")
    /\ IF self.priv_key = "rsa"
       THEN /\ signature' \in Signatures
            /\ pc' = "line213"
            /\ UNCHANGED raised
       ELSE /\ raised' = Exc("SigningError", "raised by priv_key.sign", <<>>)
            /\ pc' = "raised"
            /\ UNCHANGED signature
    /\ UNCHANGED <<self, args, now, policy, cookies>>

\* lines 213-221
Encode ==
    /\ pc = "line213"
    /\ LET encoded_policy == b64encode(encode(policy))
           encoded_signature == b64encode(signature)
       IN  cookies' = << <<"CloudFront-Policy", sanitize_b64(encoded_policy)>>,
                         <<"CloudFront-Signature", sanitize_b64(encoded_signature)>>,
                         <<"CloudFront-Key-Pair-Id", self.cloudfront_key_id>> >>
    /\ trace' = trace \o <<"_sanitize_b64", "_sanitize_b64">>
    /\ pc' = "returned"
    /\ UNCHANGED <<self, args, now, policy, signed, signature, raised>>

\* the caller has the cookies or the exception; the Signer takes the next call
Finish ==
    /\ pc \in {"returned", "raised"}
    /\ pc' = "idle"
    /\ args' = NoArgs
    /\ now' = NoTime /\ policy' = <<>> /\ signed' = <<>> /\ signature' = <<>>
    /\ cookies' = NoCookies /\ raised' = NoExc /\ trace' = <<>>
    /\ UNCHANGED self

Next ==
    \/ Call
    \/ Validate
    \/ CanonicalizeCustom
    \/ Canned
    \/ Sign
    \/ Encode
    \/ Finish

Spec == Init /\ [][Next]_vars


-----------------------------------------------------------------------------
(* what the claims speak of *)

Chars(str) == {str[j] : j \in 1..Len(str)}
Calls(name) == Cardinality({j \in 1..Len(trace) : trace[j] = name})

\* the policy cookie's way back: the substitution reversed, then base64 decoded
unsanitize_b64(str) ==
    replace(replace(replace(str, "-", <<"+">>), "_", <<"=">>), "~", <<"/">>)

B64Value(c) == IF c = "=" THEN 0 ELSE (CHOOSE j \in 1..64 : B64Alphabet[j] = c) - 1

B64Quad(q) ==
    LET v    == B64Value(q[1]) * 262144 + B64Value(q[2]) * 4096
                    + B64Value(q[3]) * 64 + B64Value(q[4])
        pads == Cardinality({j \in 3..4 : q[j] = "="})
    IN  SubSeq(<<v \div 65536, (v \div 256) % 256, v % 256>>, 1, 3 - pads)

\* standard base64 decoding; <<-1>> for what is no base64 text
b64decode(str) ==
    IF Len(str) % 4 # 0 \/ \E j \in 1..Len(str) : str[j] \notin Chars(B64Alphabet) \cup {"="}
    THEN <<0 - 1>>
    ELSE Concat([g \in 1..(Len(str) \div 4) |-> B64Quad(SubSeq(str, 4 * g - 3, 4 * g))])

\* the JSON text of a document with no whitespace between its tokens
CompactJson(v) == dumps_sep(v, <<",">>, <<":">>)

\* the one-statement document of canned mode
CannedDocument(resource, epoch) ==
    PDict(<< <<K_Statement,
        PList(<< PDict(<< <<K_Resource, resource>>,
                          <<K_Condition,
                            PDict(<< <<K_DateLessThan,
                                       PDict(<< <<K_EpochTime, PInt(epoch)>> >>)>> >>)>>
                       >>) >>)>> >>)

\* call time plus SecondsBeforeExpires, in whole seconds
ExpectedEpoch ==
    now.s + args.SecondsBeforeExpires + (now.us \div 1000000)

CustomCall == pc # "idle" /\ Truthy(args.Policy)
CannedCall == pc # "idle" /\ ~Truthy(args.Policy)
Signing == pc \in {"line213", "returned"} \/ signed # <<>>

\* C1: generate_cookies takes its mode from Policy alone.  With a non-empty
\* Policy it validates, never builds a canned policy and never asks for a
\* Resource, and what it signs and encodes is the canonical form of that Policy;
\* with an empty or absent Policy it never validates, and it raises ValueError
\* exactly when Resource is empty.
C1_ModeFromPolicyAlone ==
    /\ CustomCall =>
          /\ pc # "line205"
          /\ Calls("_make_canned_policy") = 0
          /\ raised.exc # "ValueError"
          /\ pc \in {"line201", "line211", "line213", "returned"} =>
                Calls("_validate_custom_policy") = 1
          /\ pc \in {"line211", "line213", "returned"} => policy = to_json(args.Policy)
          /\ Signing => signed = to_json(args.Policy)
          /\ pc = "returned" =>
                Lookup(cookies, "CloudFront-Policy")
                    = sanitize_b64(b64encode(encode(to_json(args.Policy))))
    /\ CannedCall =>
          /\ pc \notin {"line200", "line201"}
          /\ Calls("_validate_custom_policy") = 0
          /\ ~Truthy(args.Resource) => pc = "raised" /\ raised.exc = "ValueError"
          /\ Truthy(args.Resource) => raised.exc # "ValueError"
          /\ Truthy(args.Resource) /\ pc # "line205" => Calls("_make_canned_policy") = 1

C1_Witness ==
    /\ pc = "returned"
    /\ Truthy(args.Policy)
    /\ Truthy(args.Resource)
    /\ args.SecondsBeforeExpires # 900

\* the exceptions generate_cookies raises before it signs
RaisedBeforeSigning ==
    \/ raised.exc = "InvalidCustomPolicy"
    \/ raised.exc = "ValueError"
    \/ raised.exc = "TypeError"

\* what holds of a call at every step: a failure before signing leaves _sign
\* not run and nothing returned, a custom policy that was signed was validated
\* first and accepted, and no method has run twice
C5_StateAfterFailure ==
    /\ RaisedBeforeSigning =>
          /\ pc = "raised"
          /\ Calls("_sign") = 0
          /\ signed = <<>> /\ signature = <<>>
          /\ cookies = NoCookies
    /\ CustomCall /\ Calls("_sign") > 0 =>
          /\ trace[1] = "_validate_custom_policy"
          /\ validate_custom_policy(args.Policy) = NoExc
    /\ Calls("_validate_custom_policy") <= 1
    /\ Calls("_sign") <= 1
    /\ cookies # NoCookies => pc = "returned" /\ raised = NoExc

\* C5: a custom policy is signed only after _validate_custom_policy accepted
\* it, and a failure ends the call: once generate_cookies has raised
\* InvalidCustomPolicy, TypeError or ValueError, _sign has not run and does not
\* run, no cookies are returned, no method runs a second time, and the only
\* step left is the return to the caller.
C5_FailureIsTerminal ==
    [](C5_StateAfterFailure) /\ [][pc = "raised" => pc' = "idle" /\ cookies' = NoCookies]_vars

C5_Witness ==
    /\ pc = "raised"
    /\ raised.exc \in {"InvalidCustomPolicy", "TypeError"}
    /\ trace = <<"_validate_custom_policy">>
    /\ Truthy(args.Resource)

\* C6: the CloudFront-Policy cookie decodes to what was signed: with "-", "_"
\* and "~" turned back into "+", "=" and "/", standard base64 decoding of the
\* cookie gives exactly the bytes of the canonical string _sign received.
C6_PolicyCookieRoundTrip ==
    pc = "returned" =>
        b64decode(unsanitize_b64(Lookup(cookies, "CloudFront-Policy"))) = encode(signed)

C6_Witness ==
    /\ pc = "returned"
    /\ {"-", "_", "~"} \subseteq Chars(Lookup(cookies, "CloudFront-Policy"))

\* C9 as claimed: the signed canned policy holds the Resource argument as given.
C9_SignedResourceAsGiven ==
    CannedCall /\ Signing =>
        signed = CompactJson(CannedDocument(args.Resource, ExpectedEpoch))

\* C9: in canned mode the signed policy is the one-statement document whose
\* Resource is the Resource argument with every space removed and whose
\* Condition is DateLessThan alone, its AWS:EpochTime the call time plus
\* SecondsBeforeExpires in whole seconds.
C9_SignedCannedPolicy ==
    CannedCall /\ Signing =>
        signed = CompactJson(CannedDocument(PStr(replace(args.Resource.s, " ", <<>>)),
                                            ExpectedEpoch))

C9_Witness ==
    /\ CannedCall
    /\ pc = "returned"
    /\ " " \in Chars(args.Resource.s)
    /\ now.us > 0

\* C10: the canonical string holds no space, whatever spaces the policy's
\* string values held, and removing spaces from it changes nothing.
C10_CanonicalHasNoSpace ==
    pc \in {"line211", "line213", "returned"} =>
        /\ " " \notin Chars(policy)
        /\ replace(policy, " ", <<>>) = policy
        /\ Len(policy) > 0

C10_Witness ==
    /\ pc = "line211"
    /\ CustomCall
    /\ " " \in Chars(CompactJson(args.Policy))

-----------------------------------------------------------------------------
(* the validator's claims, under SpecValidate *)

Validated == pc = "validator_done"
Accepted  == Validated /\ raised = NoExc

HasStatement == HasKey(args.Policy.d, K_Statement)
StatementValue == Lookup(args.Policy.d, K_Statement)

\* the Statement object itself, or element 0 of a Statement sequence
Examined ==
    IF StatementValue.t = "list" THEN StatementValue.l[1] ELSE StatementValue

HasExamined == HasStatement /\ Truthy(StatementValue)

HasBothKeys(st) ==
    st.t = "dict" /\ HasKey(st.d, K_Resource) /\ HasKey(st.d, K_Condition)

\* the items of the examined statement's Condition mapping
ConditionItems ==
    IF HasExamined /\ HasBothKeys(Examined) /\ Lookup(Examined.d, K_Condition).t = "dict"
    THEN Lookup(Examined.d, K_Condition).d
    ELSE <<>>

\* the type the value under a sub-key must have
RequiredType(sub_key) ==
    CASE sub_key = K_EpochTime -> "int"
      [] sub_key = K_SourceIp  -> "str"
      [] OTHER                 -> "any"

\* some value under AWS:EpochTime is no int, or some value under AWS:SourceIp no str
HasMistypedValue ==
    \E i \in 1..Len(ConditionItems) :
        /\ ConditionItems[i][2].t = "dict"
        /\ \E j \in 1..Len(ConditionItems[i][2].d) :
              LET item == ConditionItems[i][2].d[j]
              IN  RequiredType(item[1]) \notin {"any", item[2].t}

\* C2 as claimed: a policy whose examined statement holds a non-int under
\* AWS:EpochTime or a non-str under AWS:SourceIp is rejected with
\* InvalidCustomPolicy.
C2_MistypedValueRejected ==
    Validated /\ HasMistypedValue => raised.exc = "InvalidCustomPolicy"

\* C3 as claimed: an accepted policy's examined statement holds both Resource
\* and Condition, and a non-empty Statement whose examined statement lacks
\* either is rejected with "policy statement must have Condition block".
C3_ExaminedStatementHasBoth ==
    /\ Accepted => HasExamined /\ HasBothKeys(Examined)
    /\ Validated /\ HasExamined /\ ~HasBothKeys(Examined) =>
          /\ raised.exc = "InvalidCustomPolicy"
          /\ raised.msg = "policy statement must have Condition block"

\* the sub-key fixed for a condition key
FixedSubKey(key) == IF key = K_IpAddress THEN K_SourceIp ELSE K_EpochTime

ConditionItemWellFormed(item) ==
    /\ item[1] \in {K_DateLessThan, K_DateGreaterThan, K_IpAddress}
    /\ item[2].t = "dict"
    /\ \A j \in 1..Len(item[2].d) : item[2].d[j][1] = FixedSubKey(item[1])

\* C4: in an accepted policy every condition key of the examined statement is
\* DateLessThan, DateGreaterThan or IpAddress and maps to a mapping whose only
\* key is the sub-key fixed for it (a Condition that is no mapping is accepted
\* only when it has no items at all); a Condition mapping with any other key,
\* a value that is no mapping, or any other sub-key is rejected with
\* InvalidCustomPolicy.
C4_ConditionKeysAndSubKeys ==
    /\ Accepted =>
          \A i \in 1..Len(ConditionItems) : ConditionItemWellFormed(ConditionItems[i])
    /\ Accepted /\ HasExamined /\ HasBothKeys(Examined) =>
          Lookup(Examined.d, K_Condition) \in {PStr(<<>>), PList(<<>>)}
              \/ Lookup(Examined.d, K_Condition).t = "dict"
    /\ Validated /\ (\E i \in 1..Len(ConditionItems) :
                        ~ConditionItemWellFormed(ConditionItems[i])) =>
          raised.exc = "InvalidCustomPolicy"

C4_Witness ==
    /\ Accepted
    /\ Len(ConditionItems) = MaxConditionKeys
    /\ \E i \in 1..Len(ConditionItems) : ConditionItems[i][1] = K_IpAddress

\* C7: of a Statement sequence only element 0 counts: the outcome is the one
\* the policy with that element alone gets, whatever follows it, and an empty
\* sequence is rejected with "policy statement is empty".
C7_OnlyElementZero ==
    Validated /\ HasStatement /\ StatementValue.t = "list" =>
        IF StatementValue.l = <<>>
        THEN raised = InvalidCustomPolicy("policy statement is empty", <<>>)
        ELSE raised = validate_custom_policy(
                          PDict(<< <<K_Statement, PList(<<StatementValue.l[1]>>)>> >>))

C7_Witness ==
    /\ Accepted
    /\ StatementValue.t = "list"
    /\ Len(StatementValue.l) > 1
    /\ StatementValue.l[Len(StatementValue.l)] # GoodStatement

-----------------------------------------------------------------------------
(* the constructor's claim, under SpecInit *)

\* a lowercase-hex UUID in 8-4-4-4-12 grouping
IsLowerHexUuid(id) ==
    /\ Len(id) = 36
    /\ \A j \in 1..36 : IF j \in {9, 14, 19, 24} THEN id[j] = "-" ELSE id[j] \in HexLower

\* C8 as claimed: with a key file that exists and parses, construction
\* succeeds for every lowercase-hex UUID and raises InvalidCloudFrontKeyId for
\* every other string; the identifier is checked before the key file.
C8_OnlyUuidsConstruct ==
    pc \in {"constructed", "init_raised"} =>
        /\ IsLowerHexUuid(args.cloudfront_key_id) /\ args.priv_key_file \in {"rsa", "unsuitable"} =>
              pc = "constructed" /\ self.cloudfront_key_id = args.cloudfront_key_id
        /\ ~IsLowerHexUuid(args.cloudfront_key_id) =>
              pc = "init_raised" /\ raised.exc = "InvalidCloudFrontKeyId"

=============================================================================
